---- MODULE Spec2Model ----
(***************************************************************************)
(* Model of the mongo-scanner scan orchestrator (package scanner):         *)
(* ScanAll -> ScanDatabase -> ScanCollection with their goroutines,        *)
(* buffered-channel semaphores, mutexes and WaitGroups, together with the  *)
(* pure helpers filterDatabases and calculateSampleSize; the deadline of   *)
(* runScan and the output of a run (package cmd); and package analyzer:    *)
(* extractFields, analyzeArray, buildField, getNestedFields, inferType.    *)
(*                                                                         *)
(* Names (database, collection) and patterns are sequences of one-letter   *)
(* strings so that the code's byte tests (collName[0] == '_') and the      *)
(* regular-expression search are computed, not assumed.                    *)
(***************************************************************************)
EXTENDS Integers, Sequences, FiniteSets, TLC

VARIABLES
    options,    \* types.ScanOptions of the Scanner: Concurrency, DBFilter, MaxDocs
    faults,     \* the kinds of I/O call the document source may fail in this run
    ctx,        \* the context of runScan, shared by every I/O call: "live", "expired"
    io,         \* the I/O calls issued so far: <<kind, db, coll>>
    scanAll,    \* the frame of ScanAll: pc, databases, the loop index i
    result,     \* result.Databases of ScanAll
    sem,        \* len(semaphore) of ScanAll
    mu,         \* the holder of ScanAll's mutex
    wg,         \* the counter of ScanAll's WaitGroup
    dbw,        \* per database: the goroutine of ScanAll and its ScanDatabase frame
    cw,         \* per collection: the goroutine of ScanDatabase and its ScanCollection frame
    prev,       \* what an earlier run of ScanAll put out, kept for comparison
    flt,        \* a lone application of filterDatabases: input, output
    plan,       \* a lone application of calculateSampleSize: input, output
    an,         \* a lone application of AnalyzeDocuments: documents, analysis
    fld         \* a lone application of buildField: statistics, Field

vars == <<options, faults, ctx, io, scanAll, result, sem, mu, wg, dbw, cw, prev, flt, plan, an, fld>>

orch == <<io, scanAll, result, sem, mu, wg, dbw, cw>>

-----------------------------------------------------------------------------
(* Bounds of the model *)

\* options.Concurrency ranges over 0..MaxConcurrency
MaxConcurrency == 2
\* a collection listing holds at most MaxColls names
MaxColls == 3
\* an allow-list holds at most MaxPatterns patterns (lone filterDatabases)
MaxPatterns == 2
\* a database listing holds at most MaxListing names (lone filterDatabases)
MaxListing == 2
\* counts and caps are taken within Delta of each threshold (lone calculateSampleSize)
Delta == 1

-----------------------------------------------------------------------------
(* Names *)

None == <<"-">>

Admin  == <<"a", "d", "m", "i", "n">>
Local  == <<"l", "o", "c", "a", "l">>
Config == <<"c", "o", "n", "f", "i", "g">>
App    == <<"a", "p", "p">>
Logs   == <<"l", "o", "g">>

DbNames == {Admin, Local, Config, App, Logs}

Users   == <<"u">>
Events  == <<"e">>
Tmp     == <<"_", "t">>
Under   == <<"_">>
NoName  == <<>>

CollNames == {Users, Events, Tmp, Under, NoName}

Units == DbNames \X CollNames

Min(a, b) == IF a < b THEN a ELSE b

Range(s) == {s[k] : k \in 1..Len(s)}

NoDup(s) == \A a, b \in 1..Len(s) : s[a] = s[b] => a = b

-----------------------------------------------------------------------------
(* The document source: what the cluster holds *)

\* the collections of each database, in the order the source lists them
Catalogue(d) ==
    CASE d = App   -> <<Tmp, Users, NoName, Events>>
      [] d = Logs  -> <<Under, Events>>
      [] OTHER     -> <<Users>>

\* the collection listings the source may return for d
CollListings(d) ==
    {SubSeq(Catalogue(d), 1, n) : n \in 0..Min(MaxColls, Len(Catalogue(d)))}

\* the database listings the source may return
DbListings ==
    { <<App, Admin, Logs>>, <<Local, Logs>>, <<Config, App>>, <<>> }

\* dataSize of dbStats
DataSize(d) == Len(d) * 1024

\* the number of documents of a collection
DocCount(d, c) == IF c = Users THEN 60000 ELSE IF c = NoName THEN 0 ELSE Len(c) + Len(d)

IndexNames(d, c) == IF c = Events THEN <<"_id_", "ts_1">> ELSE <<"_id_">>

FaultKinds ==
    {"listDatabases", "dbStats", "listCollections", "count", "indexes",
     "aggregate", "find", "cursorAll"}

\* Outcomes for calls made on a context of their own, which the deadline
\* of the scan does not reach
OutcomesNoCtx(kind) == IF kind \in faults THEN {TRUE, FALSE} ELSE {TRUE}

\* the outcomes of an I/O call of this kind: TRUE is success.  Every call
\* takes ctx, and a call on an expired context fails.
Outcomes(kind) ==
    IF ctx = "expired" THEN {FALSE}
    ELSE IF kind \in faults THEN {TRUE, FALSE} ELSE {TRUE}

-----------------------------------------------------------------------------
(* Regular expressions: the patterns of --db-filter.  A pattern is the     *)
(* text of an expression; the expressions modelled are an optional ^, a    *)
(* run of literal letters, an optional $; anything else with a             *)
(* metacharacter does not compile.                                         *)

Letters == {"a", "c", "d", "f", "g", "i", "l", "m", "n", "o", "p", "x"}

\* regexp.Compile: whether the text is an expression of the fragment
Compiles(p) ==
    LET n    == Len(p)
        from == IF n > 0 /\ p[1] = "^" THEN 2 ELSE 1
        to   == IF n >= from /\ p[n] = "$" THEN n - 1 ELSE n
    IN  \A k \in from..to : p[k] \in Letters

\* regexp.MatchString(pattern, s) for a pattern that compiles: an
\* unanchored search for the literal, anchored where ^ and $ say so
Matches(p, s) ==
    LET n    == Len(p)
        bol  == n > 0 /\ p[1] = "^"
        from == IF bol THEN 2 ELSE 1
        eol  == n >= from /\ p[n] = "$"
        to   == IF eol THEN n - 1 ELSE n
        lit  == SubSeq(p, from, to)
        m    == Len(lit)
    IN  \E at \in 1..(Len(s) - m + 1) :
            /\ SubSeq(s, at, at + m - 1) = lit
            /\ bol => at = 1
            /\ eol => at + m - 1 = Len(s)

\* the result pair (matched, err) of regexp.MatchString
MatchString(p, s) ==
    IF Compiles(p) THEN [matched |-> Matches(p, s), err |-> FALSE]
                   ELSE [matched |-> FALSE, err |-> TRUE]

-----------------------------------------------------------------------------
(* Scanner.filterDatabases *)

\* filterPatterns that gives up on the first pattern that does not compile
RECURSIVE filterPatternsStopOnErr(_, _, _)
filterPatternsStopOnErr(DBFilter, k, db) ==
    IF k > Len(DBFilter) THEN <<>>
    ELSE LET r == MatchString(DBFilter[k], db)
         IN  IF r.err THEN <<>>
             ELSE IF r.matched THEN <<db>>
             ELSE filterPatternsStopOnErr(DBFilter, k + 1, db)

\* the inner loop over s.options.DBFilter from pattern k on, for one
\* database name: what it appends to filtered
RECURSIVE filterPatterns(_, _, _)
filterPatterns(DBFilter, k, db) ==
    IF k > Len(DBFilter) THEN <<>>
    ELSE LET r == MatchString(DBFilter[k], db)
         IN  IF r.err THEN filterPatterns(DBFilter, k + 1, db)       \* continue
             ELSE IF r.matched THEN <<db>>                           \* append; break
             ELSE filterPatterns(DBFilter, k + 1, db)

\* the outer loop over databases from index j on
RECURSIVE filterLoop(_, _, _)
filterLoop(DBFilter, databases, j) ==
    IF j > Len(databases) THEN <<>>
    ELSE filterPatterns(DBFilter, 1, databases[j])
             \o filterLoop(DBFilter, databases, j + 1)

filterDatabases(DBFilter, databases) ==
    IF Len(DBFilter) = 0 THEN databases
    ELSE filterLoop(DBFilter, databases, 1)

-----------------------------------------------------------------------------
(* Scanner.calculateSampleSize *)

\* calculateSampleSize with the second threshold inclusive
calculateSampleSizeInclusive(MaxDocs, docCount) ==
    LET maxDocs == IF MaxDocs <= 0 THEN 75000 ELSE MaxDocs
    IN  IF docCount < 50000
        THEN IF maxDocs > docCount THEN docCount ELSE maxDocs
        ELSE IF docCount <= 200000
        THEN IF maxDocs < 50000 THEN maxDocs ELSE 50000
        ELSE IF maxDocs < 75000 THEN maxDocs ELSE 75000

calculateSampleSize(MaxDocs, docCount) ==
    LET maxDocs == IF MaxDocs <= 0 THEN 75000 ELSE MaxDocs
    IN  IF docCount < 50000
        THEN IF maxDocs > docCount THEN docCount ELSE maxDocs
        ELSE IF docCount < 200000
        THEN IF maxDocs < 50000 THEN maxDocs ELSE 50000
        ELSE IF maxDocs < 75000 THEN maxDocs ELSE 75000

-----------------------------------------------------------------------------
(* The frames *)

\* no goroutine yet for this database
IdleDb ==
    [pc |-> "idle", started |-> 0, err |-> FALSE, sizeBytes |-> 0,
     collections |-> <<>>, i |-> 1, Collections |-> <<>>, snap |-> <<>>,
     semaphore |-> 0, mu |-> None, wg |-> 0, warned |-> {}]

\* no goroutine yet for this collection
IdleColl ==
    [pc |-> "idle", started |-> 0, err |-> FALSE, sampleSize |-> 0,
     collection |-> None, snap |-> <<>>, warned |-> {}, sampling |-> <<>>]

IdleScan == [pc |-> "start", err |-> FALSE, databases |-> <<>>, i |-> 1]

OrchInit ==
    /\ io = {}
    /\ scanAll = IdleScan
    /\ result = <<>>
    /\ sem = 0
    /\ mu = None
    /\ wg = 0
    /\ dbw = [d \in DbNames |-> IdleDb]
    /\ cw = [u \in Units |-> IdleColl]

IdleFlt == [pc |-> "call", DBFilter |-> <<>>, databases |-> <<>>, filtered |-> <<>>]

IdlePlan == [pc |-> "call", MaxDocs |-> 0, docCount |-> 0, sampleSize |-> 0]

\* no earlier run
NoPrev == [pc |-> "none"]

\* no lone application of the analyzer
IdleAn == [pc |-> "idle"]

IdleFld == [pc |-> "idle"]

\* everything outside the orchestrator at rest
Rest ==
    /\ prev = NoPrev
    /\ flt = IdleFlt
    /\ plan = IdlePlan
    /\ an = IdleAn
    /\ fld = IdleFld

\* the allow-lists and fault sets of the orchestrator's runs
Filters ==
    { <<>>, <<<<"a">>>>, <<<<"(">>, <<"^", "a", "p", "p", "$">>>>,
      <<<<"l", "o">>, <<"o", "g", "$">>>> }

FaultConfigs ==
    { {"listDatabases", "listCollections", "cursorAll"} }

Init ==
    /\ options \in [Concurrency : 0..MaxConcurrency, DBFilter : Filters,
                    MaxDocs : {75000}]
    /\ faults \in FaultConfigs
    /\ ctx = "live"
    /\ OrchInit
    /\ Rest

-----------------------------------------------------------------------------
(* Scanner.ScanAll *)

\* SystemDb with "config" forgotten
SystemDbNoConfig(dbName) == dbName = Admin \/ dbName = Local

SystemDb(dbName) == dbName = Admin \/ dbName = Local \/ dbName = Config

\* ListDatabases with the error of ListDatabaseNames ignored: the scan
\* goes on with whatever listing it has
ListDatabasesNoErrCheck ==
    /\ scanAll.pc = "start"
    /\ io' = io \cup {<<"listDatabases", None, None>>}
    /\ \E ok \in Outcomes("listDatabases") :
         \E databases \in DbListings :
            scanAll' = [scanAll EXCEPT
                           !.pc = "loop",
                           !.err = ~ok,
                           !.databases = filterDatabases(options.DBFilter, databases)]
    /\ UNCHANGED <<options, faults, ctx, result, sem, mu, wg, dbw, cw, prev, flt, plan, an, fld>>

\* ListDatabaseNames, filterDatabases, the result and the semaphore
ListDatabases ==
    /\ scanAll.pc = "start"
    /\ io' = io \cup {<<"listDatabases", None, None>>}
    /\ \E ok \in Outcomes("listDatabases") :
         IF ~ok
         THEN scanAll' = [scanAll EXCEPT !.pc = "error", !.err = TRUE]
         ELSE \E databases \in DbListings :
                scanAll' = [scanAll EXCEPT
                               !.pc = "loop",
                               !.databases = filterDatabases(options.DBFilter, databases)]
    /\ UNCHANGED <<options, faults, ctx, result, sem, mu, wg, dbw, cw, prev, flt, plan, an, fld>>

\* one iteration of `for _, dbName := range databases`
SpawnDb ==
    /\ scanAll.pc = "loop"
    /\ scanAll.i <= Len(scanAll.databases)
    /\ LET dbName == scanAll.databases[scanAll.i]
       IN  IF SystemDb(dbName)
           THEN UNCHANGED <<wg, dbw>>                                \* continue
           ELSE /\ wg' = wg + 1
                /\ dbw' = [dbw EXCEPT ![dbName].pc = "spawned",
                                      ![dbName].started = @ + 1]
    /\ scanAll' = [scanAll EXCEPT !.i = @ + 1]
    /\ UNCHANGED <<options, faults, ctx, io, result, sem, mu, cw, prev, flt, plan, an, fld>>

\* the loop ends
SpawnDbEnd ==
    /\ scanAll.pc = "loop"
    /\ scanAll.i > Len(scanAll.databases)
    /\ scanAll' = [scanAll EXCEPT !.pc = "wait"]
    /\ UNCHANGED <<options, faults, ctx, io, result, sem, mu, wg, dbw, cw, prev, flt, plan, an, fld>>

\* wg.Wait() and return result, nil
ScanAllReturn ==
    /\ scanAll.pc = "wait"
    /\ wg = 0
    /\ scanAll' = [scanAll EXCEPT !.pc = "done"]
    /\ UNCHANGED <<options, faults, ctx, io, result, sem, mu, wg, dbw, cw, prev, flt, plan, an, fld>>

-----------------------------------------------------------------------------
(* The goroutine of ScanAll for one database, and Scanner.ScanDatabase *)

\* semaphore <- struct{}{}
DbAcquire(d) ==
    /\ dbw[d].pc = "spawned"
    /\ sem < options.Concurrency
    /\ sem' = sem + 1
    /\ dbw' = [dbw EXCEPT ![d].pc = "scan"]
    /\ UNCHANGED <<options, faults, ctx, io, scanAll, result, mu, wg, cw, prev, flt, plan, an, fld>>

\* ScanDatabaseList with the error of ScanDatabase dropped by the
\* goroutine: the database goes on to the append
ScanDatabaseListNoErrCheck(d) ==
    /\ dbw[d].pc = "scan"
    /\ io' = io \cup {<<"dbStats", d, None>>, <<"listCollections", d, None>>}
    /\ \E statsOk \in Outcomes("dbStats"), listOk \in Outcomes("listCollections") :
         LET sizeBytes == IF statsOk THEN DataSize(d) ELSE 0
             warned    == IF statsOk THEN {} ELSE {"dbStats"}
         IN  IF ~listOk
             THEN dbw' = [dbw EXCEPT ![d].pc = "lock", ![d].err = TRUE,
                                     ![d].sizeBytes = sizeBytes,
                                     ![d].warned = warned]
             ELSE \E collections \in CollListings(d) :
                    dbw' = [dbw EXCEPT ![d].pc = "loop",
                                       ![d].sizeBytes = sizeBytes,
                                       ![d].warned = warned,
                                       ![d].collections = collections,
                                       ![d].i = 1,
                                       ![d].Collections = <<>>]
    /\ UNCHANGED <<options, faults, ctx, scanAll, result, sem, mu, wg, cw, prev, flt, plan, an, fld>>

\* ScanDatabase up to its loop.  db.RunCommand(dbStats): a failure is
\* logged and sizeBytes stays 0.  db.ListCollectionNames: a failure makes
\* ScanDatabase return nil, err, and the goroutine returns.  Otherwise the
\* Database value, the WaitGroup, the mutex and the semaphore are made.
ScanDatabaseList(d) ==
    /\ dbw[d].pc = "scan"
    /\ io' = io \cup {<<"dbStats", d, None>>, <<"listCollections", d, None>>}
    /\ \E statsOk \in Outcomes("dbStats"), listOk \in Outcomes("listCollections") :
         LET sizeBytes == IF statsOk THEN DataSize(d) ELSE 0
             warned    == IF statsOk THEN {} ELSE {"dbStats"}
         IN  IF ~listOk
             THEN dbw' = [dbw EXCEPT ![d].pc = "return", ![d].err = TRUE,
                                     ![d].sizeBytes = sizeBytes,
                                     ![d].warned = warned]
             ELSE \E collections \in CollListings(d) :
                    dbw' = [dbw EXCEPT ![d].pc = "loop",
                                       ![d].sizeBytes = sizeBytes,
                                       ![d].warned = warned,
                                       ![d].collections = collections,
                                       ![d].i = 1,
                                       ![d].Collections = <<>>]
    /\ UNCHANGED <<options, faults, ctx, scanAll, result, sem, mu, wg, cw, prev, flt, plan, an, fld>>

\* SkipCollection that takes the empty name for a system collection too
SkipCollectionOrEmpty(collName) == Len(collName) = 0 \/ collName[1] = "_"

SkipCollection(collName) == Len(collName) > 0 /\ collName[1] = "_"

\* one iteration of `for _, collName := range collections`
SpawnColl(d) ==
    /\ dbw[d].pc = "loop"
    /\ dbw[d].i <= Len(dbw[d].collections)
    /\ LET collName == dbw[d].collections[dbw[d].i]
       IN  IF SkipCollection(collName)
           THEN /\ dbw' = [dbw EXCEPT ![d].i = @ + 1]               \* continue
                /\ UNCHANGED cw
           ELSE /\ dbw' = [dbw EXCEPT ![d].i = @ + 1, ![d].wg = @ + 1]
                /\ cw' = [cw EXCEPT ![<<d, collName>>].pc = "spawned",
                                    ![<<d, collName>>].started = @ + 1]
    /\ UNCHANGED <<options, faults, ctx, io, scanAll, result, sem, mu, wg, prev, flt, plan, an, fld>>

SpawnCollEnd(d) ==
    /\ dbw[d].pc = "loop"
    /\ dbw[d].i > Len(dbw[d].collections)
    /\ dbw' = [dbw EXCEPT ![d].pc = "wait"]
    /\ UNCHANGED <<options, faults, ctx, io, scanAll, result, sem, mu, wg, cw, prev, flt, plan, an, fld>>

\* ScanDatabaseReturn without wg.Wait()
ScanDatabaseReturnNoWait(d) ==
    /\ dbw[d].pc = "wait"
    /\ dbw' = [dbw EXCEPT ![d].pc = "lock"]
    /\ UNCHANGED <<options, faults, ctx, io, scanAll, result, sem, mu, wg, cw, prev, flt, plan, an, fld>>

\* wg.Wait() and return database, nil
ScanDatabaseReturn(d) ==
    /\ dbw[d].pc = "wait"
    /\ dbw[d].wg = 0
    /\ dbw' = [dbw EXCEPT ![d].pc = "lock"]
    /\ UNCHANGED <<options, faults, ctx, io, scanAll, result, sem, mu, wg, cw, prev, flt, plan, an, fld>>

\* the Database value *dbSchema
Database(d) ==
    [Name |-> d, SizeBytes |-> dbw[d].sizeBytes, Collections |-> dbw[d].Collections]

\* DbLock without mu.Lock(): the append is not guarded
DbLockNoMutex(d) ==
    /\ dbw[d].pc = "lock"
    /\ mu' = d
    /\ dbw' = [dbw EXCEPT ![d].pc = "append", ![d].snap = result]
    /\ UNCHANGED <<options, faults, ctx, io, scanAll, result, sem, wg, cw, prev, flt, plan, an, fld>>

\* mu.Lock(), and append reads result.Databases
DbLock(d) ==
    /\ dbw[d].pc = "lock"
    /\ mu = None
    /\ mu' = d
    /\ dbw' = [dbw EXCEPT ![d].pc = "append", ![d].snap = result]
    /\ UNCHANGED <<options, faults, ctx, io, scanAll, result, sem, wg, cw, prev, flt, plan, an, fld>>

\* DbAppend that leaves out a Database without collections
DbAppendUnlessEmpty(d) ==
    /\ dbw[d].pc = "append"
    /\ result' = IF dbw[d].Collections = <<>> THEN dbw[d].snap
                 ELSE Append(dbw[d].snap, Database(d))
    /\ mu' = None
    /\ dbw' = [dbw EXCEPT ![d].pc = "return", ![d].snap = <<>>]
    /\ UNCHANGED <<options, faults, ctx, io, scanAll, sem, wg, cw, prev, flt, plan, an, fld>>

\* result.Databases = append(...), and mu.Unlock()
DbAppend(d) ==
    /\ dbw[d].pc = "append"
    /\ result' = Append(dbw[d].snap, Database(d))
    /\ mu' = None
    /\ dbw' = [dbw EXCEPT ![d].pc = "return", ![d].snap = <<>>]
    /\ UNCHANGED <<options, faults, ctx, io, scanAll, sem, wg, cw, prev, flt, plan, an, fld>>

\* the deferred calls: <-semaphore, then wg.Done()
\* DbDone with the slot given back only after a ScanDatabase that
\* succeeded
DbDoneKeepsSlot(d) ==
    /\ dbw[d].pc = "return"
    /\ sem' = IF dbw[d].err THEN sem ELSE sem - 1
    /\ wg' = wg - 1
    /\ dbw' = [dbw EXCEPT ![d].pc = "done"]
    /\ UNCHANGED <<options, faults, ctx, io, scanAll, result, mu, cw, prev, flt, plan, an, fld>>

\* the deferred calls of the goroutine: <-semaphore, then wg.Done()
DbDone(d) ==
    /\ dbw[d].pc = "return"
    /\ sem' = sem - 1
    /\ wg' = wg - 1
    /\ dbw' = [dbw EXCEPT ![d].pc = "done"]
    /\ UNCHANGED <<options, faults, ctx, io, scanAll, result, mu, cw, prev, flt, plan, an, fld>>

-----------------------------------------------------------------------------
(* The goroutine of ScanDatabase for one collection, and                   *)
(* Scanner.ScanCollection                                                  *)

\* CollAcquire with a semaphore one slot too wide
CollAcquireOffByOne(d, c) ==
    /\ cw[<<d, c>>].pc = "spawned"
    /\ dbw[d].semaphore <= options.Concurrency
    /\ dbw' = [dbw EXCEPT ![d].semaphore = @ + 1]
    /\ cw' = [cw EXCEPT ![<<d, c>>].pc = "scan"]
    /\ UNCHANGED <<options, faults, ctx, io, scanAll, result, sem, mu, wg, prev, flt, plan, an, fld>>

\* semaphore <- struct{}{}
CollAcquire(d, c) ==
    /\ cw[<<d, c>>].pc = "spawned"
    /\ dbw[d].semaphore < options.Concurrency
    /\ dbw' = [dbw EXCEPT ![d].semaphore = @ + 1]
    /\ cw' = [cw EXCEPT ![<<d, c>>].pc = "scan"]
    /\ UNCHANGED <<options, faults, ctx, io, scanAll, result, sem, mu, wg, prev, flt, plan, an, fld>>

\* the requests of sampleDocuments, with the size each one carries
AggregateSample(sampleSize, ok) ==
    [call |-> "aggregate", size |-> sampleSize, ok |-> ok]

FindLimit(sampleSize, ok) == [call |-> "find", size |-> sampleSize, ok |-> ok]

CursorAll(ok) == [call |-> "cursorAll", ok |-> ok]

\* sampleDocuments without the fallback: an error of coll.Aggregate is
\* returned at once
sampleDocumentsNoFallback(d, c, sampleSize, aggregateOk, findOk, allOk) ==
    LET calls == {<<"aggregate", d, c>>}
        docs  == Min(sampleSize, DocCount(d, c))
    IN  IF ~aggregateOk
        THEN [calls |-> calls, err |-> TRUE, docs |-> 0,
              sampling |-> <<AggregateSample(sampleSize, FALSE)>>]
        ELSE [calls |-> calls, err |-> ~allOk, docs |-> IF allOk THEN docs ELSE 0,
              sampling |-> <<AggregateSample(sampleSize, TRUE), CursorAll(allOk)>>]

\* Scanner.sampleDocuments, given the outcomes of coll.Aggregate, coll.Find
\* and cursor.All: the calls issued, the error, the number of documents,
\* and the requests in the order they were made
sampleDocuments(d, c, sampleSize, aggregateOk, findOk, allOk) ==
    LET calls == {<<"aggregate", d, c>>}
                     \cup (IF aggregateOk THEN {} ELSE {<<"find", d, c>>})
        docs  == Min(sampleSize, DocCount(d, c))
        first == <<AggregateSample(sampleSize, aggregateOk)>>
                     \o (IF aggregateOk THEN <<>>
                         ELSE <<FindLimit(sampleSize, findOk)>>)
    IN  IF ~aggregateOk /\ ~findOk
        THEN [calls |-> calls, err |-> TRUE, docs |-> 0, sampling |-> first]
        ELSE IF ~allOk
        THEN [calls |-> calls, err |-> TRUE, docs |-> 0,
              sampling |-> Append(first, CursorAll(FALSE))]
        ELSE [calls |-> calls, err |-> FALSE, docs |-> docs,
              sampling |-> Append(first, CursorAll(TRUE))]

\* the Collection value *collSchema; Docs stands for what is derived from
\* the sampled documents (AverageDocSizeBytes, Fields)
Collection(collName, docCount, indexes, docs) ==
    [Name |-> collName, DocumentCount |-> docCount,
     Indexes |-> indexes, Docs |-> docs]

\* ScanCollection with the error of s.getIndexes returned instead of
\* logged: a collection whose indexes cannot be listed fails
ScanCollectionIndexFatal(d, c) ==
    /\ cw[<<d, c>>].pc = "scan"
    /\ \E countOk \in Outcomes("count"), indexesOk \in Outcomes("indexes"),
          aggregateOk \in Outcomes("aggregate"), findOk \in Outcomes("find"),
          allOk \in Outcomes("cursorAll") :
         LET docCount   == IF countOk THEN DocCount(d, c) ELSE 0
             sampleSize == calculateSampleSize(options.MaxDocs, docCount)
             indexes    == IF indexesOk THEN IndexNames(d, c) ELSE <<>>
             r          == sampleDocuments(d, c, sampleSize, aggregateOk, findOk, allOk)
             warned     == (IF countOk THEN {} ELSE {"count"})
                               \cup (IF indexesOk THEN {} ELSE {"indexes"})
         IN  /\ io' = io \cup {<<"count", d, c>>, <<"indexes", d, c>>} \cup r.calls
             /\ IF r.err \/ ~indexesOk
                THEN cw' = [cw EXCEPT ![<<d, c>>].pc = "return",
                                      ![<<d, c>>].err = TRUE,
                                      ![<<d, c>>].sampleSize = sampleSize,
                                      ![<<d, c>>].warned = warned,
                                      ![<<d, c>>].sampling = r.sampling]
                ELSE cw' = [cw EXCEPT
                               ![<<d, c>>].pc = "lock",
                               ![<<d, c>>].sampleSize = sampleSize,
                               ![<<d, c>>].warned = warned,
                               ![<<d, c>>].sampling = r.sampling,
                               ![<<d, c>>].collection =
                                   Collection(c, docCount, indexes, r.docs)]
    /\ UNCHANGED <<options, faults, ctx, scanAll, result, sem, mu, wg, dbw, prev, flt, plan, an, fld>>

\* ScanCollection without `if err != nil { return }` in the goroutine: the
\* failed collection goes on to the append
ScanCollectionNoErrCheck(d, c) ==
    /\ cw[<<d, c>>].pc = "scan"
    /\ \E countOk \in Outcomes("count"), indexesOk \in Outcomes("indexes"),
          aggregateOk \in Outcomes("aggregate"), findOk \in Outcomes("find"),
          allOk \in Outcomes("cursorAll") :
         LET docCount   == IF countOk THEN DocCount(d, c) ELSE 0
             sampleSize == calculateSampleSize(options.MaxDocs, docCount)
             indexes    == IF indexesOk THEN IndexNames(d, c) ELSE <<>>
             r          == sampleDocuments(d, c, sampleSize, aggregateOk, findOk, allOk)
             warned     == (IF countOk THEN {} ELSE {"count"})
                               \cup (IF indexesOk THEN {} ELSE {"indexes"})
         IN  /\ io' = io \cup {<<"count", d, c>>, <<"indexes", d, c>>} \cup r.calls
             /\ cw' = [cw EXCEPT
                          ![<<d, c>>].pc = "lock",
                          ![<<d, c>>].err = r.err,
                          ![<<d, c>>].sampleSize = sampleSize,
                          ![<<d, c>>].warned = warned,
                          ![<<d, c>>].sampling = r.sampling,
                          ![<<d, c>>].collection =
                              Collection(c, docCount, indexes, r.docs)]
    /\ UNCHANGED <<options, faults, ctx, scanAll, result, sem, mu, wg, dbw, prev, flt, plan, an, fld>>

\* ScanCollection with the error of coll.EstimatedDocumentCount returned
\* instead of logged: a collection that cannot be counted fails
ScanCollectionCountFatal(d, c) ==
    /\ cw[<<d, c>>].pc = "scan"
    /\ \E countOk \in Outcomes("count"), indexesOk \in Outcomes("indexes"),
          aggregateOk \in Outcomes("aggregate"), findOk \in Outcomes("find"),
          allOk \in Outcomes("cursorAll") :
         LET docCount   == IF countOk THEN DocCount(d, c) ELSE 0
             sampleSize == calculateSampleSize(options.MaxDocs, docCount)
             indexes    == IF indexesOk THEN IndexNames(d, c) ELSE <<>>
             r          == sampleDocuments(d, c, sampleSize, aggregateOk, findOk, allOk)
             warned     == (IF countOk THEN {} ELSE {"count"})
                               \cup (IF indexesOk THEN {} ELSE {"indexes"})
         IN  /\ io' = io \cup {<<"count", d, c>>, <<"indexes", d, c>>} \cup r.calls
             /\ IF r.err \/ ~countOk
                THEN cw' = [cw EXCEPT ![<<d, c>>].pc = "return",
                                      ![<<d, c>>].err = TRUE,
                                      ![<<d, c>>].sampleSize = sampleSize,
                                      ![<<d, c>>].warned = warned,
                                      ![<<d, c>>].sampling = r.sampling]
                ELSE cw' = [cw EXCEPT
                               ![<<d, c>>].pc = "lock",
                               ![<<d, c>>].sampleSize = sampleSize,
                               ![<<d, c>>].warned = warned,
                               ![<<d, c>>].sampling = r.sampling,
                               ![<<d, c>>].collection =
                                   Collection(c, docCount, indexes, r.docs)]
    /\ UNCHANGED <<options, faults, ctx, scanAll, result, sem, mu, wg, dbw, prev, flt, plan, an, fld>>

\* Scanner.ScanCollection and the error test of the goroutine.
\* coll.EstimatedDocumentCount: a failure is logged and docCount = 0; then
\* sampleSize := s.calculateSampleSize(docCount).  s.getIndexes: a failure
\* is logged and indexes = []string{}.  s.sampleDocuments: an error makes
\* ScanCollection return nil, err, and the goroutine returns.
ScanCollection(d, c) ==
    /\ cw[<<d, c>>].pc = "scan"
    /\ \E countOk \in Outcomes("count"), indexesOk \in Outcomes("indexes"),
          aggregateOk \in Outcomes("aggregate"), findOk \in Outcomes("find"),
          allOk \in Outcomes("cursorAll") :
         LET docCount   == IF countOk THEN DocCount(d, c) ELSE 0
             sampleSize == calculateSampleSize(options.MaxDocs, docCount)
             indexes    == IF indexesOk THEN IndexNames(d, c) ELSE <<>>
             r          == sampleDocuments(d, c, sampleSize, aggregateOk, findOk, allOk)
             warned     == (IF countOk THEN {} ELSE {"count"})
                               \cup (IF indexesOk THEN {} ELSE {"indexes"})
         IN  /\ io' = io \cup {<<"count", d, c>>, <<"indexes", d, c>>} \cup r.calls
             /\ IF r.err
                THEN cw' = [cw EXCEPT ![<<d, c>>].pc = "return",
                                      ![<<d, c>>].err = TRUE,
                                      ![<<d, c>>].sampleSize = sampleSize,
                                      ![<<d, c>>].warned = warned,
                                      ![<<d, c>>].sampling = r.sampling]
                ELSE cw' = [cw EXCEPT
                               ![<<d, c>>].pc = "lock",
                               ![<<d, c>>].sampleSize = sampleSize,
                               ![<<d, c>>].warned = warned,
                               ![<<d, c>>].sampling = r.sampling,
                               ![<<d, c>>].collection =
                                   Collection(c, docCount, indexes, r.docs)]
    /\ UNCHANGED <<options, faults, ctx, scanAll, result, sem, mu, wg, dbw, prev, flt, plan, an, fld>>

\* mu.Lock(), and append reads database.Collections
CollLock(d, c) ==
    /\ cw[<<d, c>>].pc = "lock"
    /\ dbw[d].mu = None
    /\ dbw' = [dbw EXCEPT ![d].mu = c]
    /\ cw' = [cw EXCEPT ![<<d, c>>].pc = "append",
                        ![<<d, c>>].snap = dbw[d].Collections]
    /\ UNCHANGED <<options, faults, ctx, io, scanAll, result, sem, mu, wg, prev, flt, plan, an, fld>>

\* database.Collections = append(...), and mu.Unlock()
CollAppend(d, c) ==
    /\ cw[<<d, c>>].pc = "append"
    /\ dbw' = [dbw EXCEPT ![d].Collections =
                              Append(cw[<<d, c>>].snap, cw[<<d, c>>].collection),
                          ![d].mu = None]
    /\ cw' = [cw EXCEPT ![<<d, c>>].pc = "return", ![<<d, c>>].snap = <<>>]
    /\ UNCHANGED <<options, faults, ctx, io, scanAll, result, sem, mu, wg, prev, flt, plan, an, fld>>

\* the deferred calls: <-semaphore, then wg.Done()
CollDone(d, c) ==
    /\ cw[<<d, c>>].pc = "return"
    /\ dbw' = [dbw EXCEPT ![d].semaphore = @ - 1, ![d].wg = @ - 1]
    /\ cw' = [cw EXCEPT ![<<d, c>>].pc = "done"]
    /\ UNCHANGED <<options, faults, ctx, io, scanAll, result, sem, mu, wg, prev, flt, plan, an, fld>>

-----------------------------------------------------------------------------
(* The orchestrator *)

Next ==
    \/ ListDatabases
    \/ SpawnDb
    \/ SpawnDbEnd
    \/ ScanAllReturn
    \/ \E d \in DbNames : DbAcquire(d)
    \/ \E d \in DbNames : ScanDatabaseList(d)
    \/ \E d \in DbNames : SpawnColl(d)
    \/ \E d \in DbNames : SpawnCollEnd(d)
    \/ \E d \in DbNames : ScanDatabaseReturn(d)
    \/ \E d \in DbNames : DbLock(d)
    \/ \E d \in DbNames : DbAppend(d)
    \/ \E d \in DbNames : DbDone(d)
    \/ \E d \in DbNames, c \in CollNames : CollAcquire(d, c)
    \/ \E d \in DbNames, c \in CollNames : ScanCollection(d, c)
    \/ \E d \in DbNames, c \in CollNames : CollLock(d, c)
    \/ \E d \in DbNames, c \in CollNames : CollAppend(d, c)
    \/ \E d \in DbNames, c \in CollNames : CollDone(d, c)

Spec == Init /\ [][Next]_vars

-----------------------------------------------------------------------------
(* Runs of ScanAll under other faults of the document source *)

\* a run with these fault kinds, these concurrency limits, no allow-list
InitRun(F, Limits) ==
    /\ options \in [Concurrency : Limits, DBFilter : {<<>>}, MaxDocs : {75000}]
    /\ faults = F
    /\ ctx = "live"
    /\ OrchInit
    /\ Rest

\* coll.Aggregate, coll.Find and cursor.All may fail
InitSample == InitRun({"aggregate", "find", "cursorAll"}, {1})

SpecSample == InitSample /\ [][Next]_vars

\* db.RunCommand(dbStats) and coll.Indexes().List may fail
InitDegraded == InitRun({"dbStats", "indexes"}, {1})

SpecDegraded == InitDegraded /\ [][Next]_vars

\* the deadline of context.WithTimeout(context.Background(), opts.Timeout)
\* passes while ScanAll runs.  A deadline that passes between two calls of
\* one function shows in the result as one that passed before the first
\* call that is required: the earlier calls are only logged on failure.
Expire ==
    /\ ctx = "live"
    /\ scanAll.pc \notin {"done", "error"}
    /\ ctx' = "expired"
    /\ UNCHANGED <<options, faults, orch, prev, flt, plan, an, fld>>

NextCancel == Next \/ Expire

\* the source never fails of itself; only the deadline makes calls fail
InitCancel == InitRun({}, {1, 2})

SpecCancel == InitCancel /\ [][NextCancel]_vars

\* the units ScanAll started a goroutine for; <<d, None>> is database d
Reached ==
    {<<d, None>> : d \in {x \in DbNames : dbw[x].started > 0}}
        \cup {u \in Units : cw[u].started > 0}

\* the units dropped by an error of their own scan
Dropped ==
    {<<d, None>> : d \in {x \in DbNames : dbw[x].err}}
        \cup {u \in Units : cw[u].err}

RECURSIVE totalCollections(_)
\* printSummary: totalCollections += len(db.Collections)
totalCollections(databases) ==
    IF databases = <<>> THEN 0
    ELSE Len(Head(databases).Collections) + totalCollections(Tail(databases))

\* what a run puts out: the exported ScanResult and the counts of
\* printSummary (Total Fields is a function of the exported collections)
Output ==
    [Databases   |-> result,
     Summary     |-> [Databases   |-> Len(result),
                      Collections |-> totalCollections(result)]]

\* runScan has ended; the command is run once more, and the source may
\* hold other units by then
Rerun ==
    /\ scanAll.pc = "done"
    /\ prev = NoPrev
    /\ prev' = [pc |-> "kept", output |-> Output,
                reached |-> Reached, dropped |-> Dropped]
    /\ io' = {}
    /\ scanAll' = IdleScan
    /\ result' = <<>>
    /\ sem' = 0
    /\ mu' = None
    /\ wg' = 0
    /\ dbw' = [d \in DbNames |-> IdleDb]
    /\ cw' = [u \in Units |-> IdleColl]
    /\ UNCHANGED <<options, faults, ctx, flt, plan, an, fld>>

NextOutput == Next \/ Rerun

\* two runs, one worker at a time; listing collections and reading a
\* sample may fail
InitOutput == InitRun({"listCollections", "cursorAll"}, {1})

SpecOutput == InitOutput /\ [][NextOutput]_vars

-----------------------------------------------------------------------------
(* filterDatabases and calculateSampleSize applied alone to drawn inputs *)

\* the pattern texts drawn: literals, anchored literals, the empty pattern,
\* and two texts that do not compile
Patterns ==
    { <<>>, <<"a">>, <<"l", "o">>, <<"p", "x">>, <<"^", "a", "p", "p", "$">>,
      <<"o", "g", "$">>, <<"^", "c">>, <<"(">>, <<"a", "[">> }

SeqsUpTo(S, n) == UNION {[1..k -> S] : k \in 0..n}

FilterCall ==
    /\ flt.pc = "call"
    /\ flt' = [flt EXCEPT !.pc = "done",
                          !.filtered = filterDatabases(flt.DBFilter, flt.databases)]
    /\ UNCHANGED <<options, faults, ctx, orch, prev, plan, an, fld>>

InitFilter ==
    /\ options = [Concurrency |-> 0, DBFilter |-> <<>>, MaxDocs |-> 0]
    /\ faults = {}
    /\ ctx = "live"
    /\ OrchInit
    /\ prev = NoPrev
    /\ an = IdleAn
    /\ fld = IdleFld
    /\ flt \in [pc : {"call"}, DBFilter : SeqsUpTo(Patterns, MaxPatterns),
                databases : {l \in SeqsUpTo(DbNames, MaxListing) : NoDup(l)},
                filtered : {<<>>}]
    /\ plan = IdlePlan

SpecFilter == InitFilter /\ [][FilterCall]_vars

\* the values within Delta of a threshold
Near(S) == UNION {(t - Delta)..(t + Delta) : t \in S}

Counts == {n \in Near({0, 50000, 75000, 200000}) : n >= 0}

Caps == Near({0, 100, 50000, 75000, 200000})

PlanCall ==
    /\ plan.pc = "call"
    /\ plan' = [plan EXCEPT !.pc = "done",
                            !.sampleSize = calculateSampleSize(plan.MaxDocs, plan.docCount)]
    /\ UNCHANGED <<options, faults, ctx, orch, prev, flt, an, fld>>

InitPlan ==
    /\ options = [Concurrency |-> 0, DBFilter |-> <<>>, MaxDocs |-> 0]
    /\ faults = {}
    /\ ctx = "live"
    /\ OrchInit
    /\ prev = NoPrev
    /\ an = IdleAn
    /\ fld = IdleFld
    /\ flt = IdleFlt
    /\ plan \in [pc : {"call"}, MaxDocs : Caps, docCount : Counts, sampleSize : {0}]

SpecPlan == InitPlan /\ [][PlanCall]_vars

-----------------------------------------------------------------------------
(* What the claims speak of *)

\* the names of a sequence of Database or Collection values
NamesOf(seq) == {seq[k].Name : k \in 1..Len(seq)}

\* how many entries of the sequence carry this name
CountOf(seq, name) == Cardinality({k \in 1..Len(seq) : seq[k].Name = name})

\* ScanDatabase(d) has returned database, nil
DbReturnedOk(d) ==
    /\ dbw[d].pc \in {"lock", "append", "return", "done"}
    /\ ~dbw[d].err

\* the name begins with an underscore
Underscored(name) == name # <<>> /\ Head(name) = "_"

\* the collections of d that ScanDatabase started a goroutine for
Workers(d) == {c \in Range(dbw[d].collections) : ~Underscored(c)}

\* goroutines holding a slot of the semaphore of their level
DbInFlight == {d \in DbNames : dbw[d].pc \notin {"idle", "spawned", "done"}}

CollInFlight(d) ==
    {c \in CollNames : cw[<<d, c>>].pc \notin {"idle", "spawned", "done"}}

-----------------------------------------------------------------------------
\* C1: a collection whose scan failed is never in its database's
\* Collections; once ScanDatabase has returned, every started collection
\* that did not fail is in Collections; and a collection failure makes
\* neither ScanDatabase nor ScanAll return an error.
C1_CollectionPartialResult ==
    /\ \A d \in DbNames, c \in CollNames :
         cw[<<d, c>>].err =>
            /\ c \notin NamesOf(dbw[d].Collections)
            /\ \A k \in 1..Len(result) :
                 result[k].Name = d => c \notin NamesOf(result[k].Collections)
            /\ ~dbw[d].err
            /\ scanAll.pc # "error"
    /\ \A d \in DbNames :
         DbReturnedOk(d) =>
            \A c \in Workers(d) :
               ~cw[<<d, c>>].err => c \in NamesOf(dbw[d].Collections)
    /\ scanAll.pc = "done" =>
         \A k \in 1..Len(result) :
            \A c \in Workers(result[k].Name) :
               ~cw[<<result[k].Name, c>>].err
                  => c \in NamesOf(result[k].Collections)

\* a scan that ended with a failed collection and a sibling of it in the result
C1_Witness ==
    /\ scanAll.pc = "done"
    /\ \E k \in 1..Len(result) :
         \E c1, c2 \in Workers(result[k].Name) :
            /\ cw[<<result[k].Name, c1>>].err
            /\ ~cw[<<result[k].Name, c2>>].err
            /\ c2 \in NamesOf(result[k].Collections)
            /\ c1 \notin NamesOf(result[k].Collections)

\* C2: a database whose collection listing failed is never in
\* result.Databases; when ScanAll returns, every started database that
\* did not fail is in it; and ScanAll does not return an error for it.
C2_DatabasePartialResult ==
    /\ \A d \in DbNames :
         dbw[d].err => d \notin NamesOf(result) /\ scanAll.pc # "error"
    /\ scanAll.pc = "done" =>
         \A d \in DbNames :
            dbw[d].started > 0 /\ ~dbw[d].err => d \in NamesOf(result)
    /\ (\E d \in DbNames : dbw[d].started > 0) => scanAll.pc # "error" /\ ~scanAll.err

\* a scan that ended with a failed database and another one in the result
C2_Witness ==
    /\ scanAll.pc = "done"
    /\ \E d1, d2 \in DbNames :
         /\ dbw[d1].err /\ d1 \notin NamesOf(result)
         /\ dbw[d2].started > 0 /\ ~dbw[d2].err /\ d2 \in NamesOf(result)

\* C3: ScanAll returns an error exactly when ListDatabaseNames failed, and
\* then no goroutine was started, no other I/O call was issued and there
\* is no result.
C3_ListFailureIsFatal ==
    /\ scanAll.err <=> scanAll.pc = "error"
    /\ scanAll.err =>
         /\ io = {<<"listDatabases", None, None>>}
         /\ \A d \in DbNames : dbw[d] = IdleDb
         /\ \A u \in Units : cw[u] = IdleColl
         /\ result = <<>>
         /\ sem = 0 /\ wg = 0

\* ListDatabaseNames has failed
C3_Witness == scanAll.err /\ <<"listDatabases", None, None>> \in io

\* C4: at most Concurrency database goroutines hold a slot, at most
\* Concurrency collection goroutines per database hold a slot, and at most
\* Concurrency * Concurrency collection goroutines in all.
C4_BoundedParallelism ==
    /\ Cardinality(DbInFlight) <= options.Concurrency
    /\ sem = Cardinality(DbInFlight)
    /\ \A d \in DbNames :
         /\ Cardinality(CollInFlight(d)) <= options.Concurrency
         /\ dbw[d].semaphore = Cardinality(CollInFlight(d))
    /\ Cardinality({u \in Units : cw[u].pc \notin {"idle", "spawned", "done"}})
          <= options.Concurrency * options.Concurrency

\* with a limit above 1, every slot of ScanAll's semaphore and every slot
\* of one database's semaphore is held
C4_Witness ==
    /\ options.Concurrency > 1
    /\ Cardinality(DbInFlight) = options.Concurrency
    /\ \E d \in DbNames : Cardinality(CollInFlight(d)) = options.Concurrency

\* the goroutine has not started or has ended
Quiet(pc) == pc \in {"idle", "done"}

\* what a step may not do to values already appended to their parent
Frozen ==
    /\ \A k \in 1..Len(result) :
         k <= Len(result') /\ result'[k] = result[k]
    /\ \A d \in DbNames :
         /\ \A k \in 1..Len(dbw[d].Collections) :
              /\ k <= Len(dbw'[d].Collections)
              /\ dbw'[d].Collections[k] = dbw[d].Collections[k]
         /\ d \in NamesOf(result) =>
              /\ dbw'[d].Collections = dbw[d].Collections
              /\ dbw'[d].sizeBytes = dbw[d].sizeBytes
    /\ scanAll.pc = "done" => result' = result /\ scanAll'.pc = "done"

\* C5: a Database is in the result only when all its collection
\* goroutines have ended, ScanAll has returned only when all goroutines
\* have ended, and no step changes a Collection or Database already
\* appended to its parent, nor the result once ScanAll has returned.
C5_JoinThenFrozen ==
    /\ [](/\ \A d \in NamesOf(result) :
               \A c \in CollNames : Quiet(cw[<<d, c>>].pc)
          /\ scanAll.pc = "done" =>
               /\ \A d \in DbNames : Quiet(dbw[d].pc)
               /\ \A u \in Units : Quiet(cw[u].pc))
    /\ [][Frozen]_vars

\* ScanAll has returned a Database that holds collections
C5_Witness ==
    /\ scanAll.pc = "done"
    /\ \E k \in 1..Len(result) : Len(result[k].Collections) > 1

\* C6: when ScanAll returns, result.Databases holds exactly one entry for
\* each selected database whose scan succeeded and none for any other, and
\* each entry's Collections holds exactly one entry for each listed,
\* non-skipped collection whose scan succeeded and none for any other.
C6_NoLostNoDuplicate ==
    scanAll.pc = "done" =>
       /\ \A d \in DbNames :
            CountOf(result, d) =
               IF /\ d \in Range(scanAll.databases)
                  /\ d \notin {Admin, Local, Config}
                  /\ ~dbw[d].err
               THEN 1 ELSE 0
       /\ \A k \in 1..Len(result) :
            \A c \in CollNames :
               CountOf(result[k].Collections, c) =
                  IF /\ c \in Range(dbw[result[k].Name].collections)
                     /\ ~Underscored(c)
                     /\ ~cw[<<result[k].Name, c>>].err
                  THEN 1 ELSE 0

\* ScanAll has returned two databases, one of them with two collections
C6_Witness ==
    /\ scanAll.pc = "done"
    /\ Len(result) = 2
    /\ \E k \in 1..Len(result) : Len(result[k].Collections) = 2

\* C7: for admin, local and config no goroutine is ever started, no I/O
\* call is ever issued, and no entry is ever in result.Databases.
C7_SystemDatabasesExcluded ==
    /\ \A d \in {Admin, Local, Config} :
         /\ dbw[d] = IdleDb
         /\ \A c \in CollNames : cw[<<d, c>>] = IdleColl
         /\ d \notin NamesOf(result)
    /\ \A call \in io : call[2] \notin {Admin, Local, Config}

\* ScanAll has returned a non-empty result after a pattern of the
\* allow-list let a system database through filterDatabases
C7_Witness ==
    /\ scanAll.pc = "done"
    /\ options.DBFilter # <<>>
    /\ \E d \in {Admin, Local, Config} : d \in Range(scanAll.databases)
    /\ result # <<>>

\* C8: filterDatabases returns the listing itself for an empty allow-list,
\* and otherwise the names of the listing, in listing order and once
\* each, that at least one compiling pattern matches.
C8_AllowList ==
    flt.pc = "done" =>
       LET Selected(db) ==
               \E k \in 1..Len(flt.DBFilter) :
                  Compiles(flt.DBFilter[k]) /\ Matches(flt.DBFilter[k], db)
       IN  IF flt.DBFilter = <<>>
           THEN flt.filtered = flt.databases
           ELSE /\ flt.filtered = SelectSeq(flt.databases, Selected)
                /\ NoDup(flt.filtered)

\* a pattern that does not compile comes first, a later one selects some
\* but not all of the listing
C8_Witness ==
    /\ flt.pc = "done"
    /\ Len(flt.DBFilter) > 1
    /\ ~Compiles(flt.DBFilter[1])
    /\ flt.filtered # <<>>
    /\ Len(flt.filtered) < Len(flt.databases)

\* C9: for a collection whose name begins with '_' no goroutine is started
\* and no I/O call is issued, and it is in no Collections; every other
\* listed collection, the one with the empty name too, gets exactly one
\* goroutine, and no goroutine is started for a name not listed.
C9_UnderscoreSkipped ==
    /\ \A call \in io : ~Underscored(call[3])
    /\ \A k \in 1..Len(result) :
         \A j \in 1..Len(result[k].Collections) :
            ~Underscored(result[k].Collections[j].Name)
    /\ \A d \in DbNames :
         /\ \A j \in 1..Len(dbw[d].Collections) :
              ~Underscored(dbw[d].Collections[j].Name)
         /\ \A c \in CollNames :
              /\ Underscored(c) => cw[<<d, c>>] = IdleColl
              /\ cw[<<d, c>>].started <= 1
              /\ cw[<<d, c>>].started = 1 => c \in Range(dbw[d].collections)
         /\ dbw[d].pc = "wait" \/ DbReturnedOk(d) =>
              \A c \in Range(dbw[d].collections) :
                 ~Underscored(c) => cw[<<d, c>>].started = 1

\* a database scan has ended whose listing held an underscored name and
\* the empty name, and the empty-named collection is in its Collections
C9_Witness ==
    \E d \in DbNames :
       /\ dbw[d].pc = "done"
       /\ \E c \in Range(dbw[d].collections) : Underscored(c)
       /\ NoName \in Range(dbw[d].collections)
       /\ cw[<<d, NoName>>].started = 1
       /\ NoName \in NamesOf(dbw[d].Collections)

-----------------------------------------------------------------------------
\* the frame of the collection has gone through sampleDocuments
Sampled(d, c) == cw[<<d, c>>].sampling # <<>>

\* coll.Aggregate with $sample returned an error
AggregateFailed(d, c) == Sampled(d, c) /\ ~cw[<<d, c>>].sampling[1].ok

\* a request of the fallback retrieval returned an error: coll.Find, or
\* cursor.All on its cursor
FallbackFailed(d, c) ==
    \E k \in 2..Len(cw[<<d, c>>].sampling) : ~cw[<<d, c>>].sampling[k].ok

-----------------------------------------------------------------------------
\* the entries of a sequence of Database or Collection values with this name
EntriesOf(seq, name) == {seq[k] : k \in {j \in 1..Len(seq) : seq[j].Name = name}}

\* ScanCollection(d, c) has returned collection, nil
CollReturnedOk(d, c) ==
    /\ cw[<<d, c>>].pc \in {"lock", "append", "return", "done"}
    /\ ~cw[<<d, c>>].err

\* C12: a collection whose index listing failed does not fail: its
\* Collection value has an empty index list and is appended to Collections;
\* a database whose dbStats command failed does not fail: its size is 0 and
\* it is appended to the result; neither failure makes ScanAll return an
\* error.
C12_DegradedData ==
    /\ \A d \in DbNames, c \in CollNames :
         "indexes" \in cw[<<d, c>>].warned =>
            /\ CollReturnedOk(d, c)
            /\ cw[<<d, c>>].collection.Indexes = <<>>
            /\ DbReturnedOk(d) =>
                  /\ CountOf(dbw[d].Collections, c) = 1
                  /\ \A e \in EntriesOf(dbw[d].Collections, c) : e.Indexes = <<>>
    /\ \A d \in DbNames :
         "dbStats" \in dbw[d].warned =>
            /\ ~dbw[d].err
            /\ dbw[d].sizeBytes = 0
            /\ scanAll.pc = "done" =>
                  /\ CountOf(result, d) = 1
                  /\ \A e \in EntriesOf(result, d) : e.SizeBytes = 0
    /\ scanAll.pc # "error"

\* both degradations in one returned result: App with size 0, holding
\* Users with no index name, while Logs kept its size and its indexes
C12_Witness ==
    /\ scanAll.pc = "done"
    /\ "dbStats" \in dbw[App].warned
    /\ "indexes" \in cw[<<App, Users>>].warned
    /\ \E e \in EntriesOf(result, App) :
          /\ e.SizeBytes = 0
          /\ \E x \in EntriesOf(e.Collections, Users) : x.Indexes = <<>>
    /\ \E e \in EntriesOf(result, Logs) :
          /\ e.SizeBytes = DataSize(Logs)
          /\ \E x \in EntriesOf(e.Collections, Events) :
                x.Indexes = IndexNames(Logs, Events)

-----------------------------------------------------------------------------
\* seq is an initial part of seq2
IsPrefix(seq, seq2) ==
    /\ Len(seq) <= Len(seq2)
    /\ \A k \in 1..Len(seq) : seq[k] = seq2[k]

\* database listing has succeeded
Listed == scanAll.pc \in {"loop", "wait", "done"}

\* this step is ScanDatabase(d) making its I/O calls
DbCalls(d) == dbw[d].pc = "scan" /\ dbw'[d].pc # "scan"

\* this step is ScanCollection(d, c) making its I/O calls
CollCalls(d, c) == cw[<<d, c>>].pc = "scan" /\ cw'[<<d, c>>].pc # "scan"

\* what a step taken after listing, on an expired context, does
AfterExpiry ==
    (Listed /\ ctx = "expired") =>
       /\ \A d \in DbNames :
            DbCalls(d) => (dbw'[d].err /\ "dbStats" \in dbw'[d].warned)
       /\ \A d \in DbNames, c \in CollNames :
            CollCalls(d, c) =>
               /\ cw'[<<d, c>>].err
               /\ cw'[<<d, c>>].warned = {"count", "indexes"}
               /\ \A k \in 1..Len(cw'[<<d, c>>].sampling) :
                    ~cw'[<<d, c>>].sampling[k].ok

\* nothing appended is taken back
AppendedStays ==
    /\ IsPrefix(result, result')
    /\ \A d \in DbNames :
         dbw[d].pc \notin {"idle", "spawned", "scan"} =>
            IsPrefix(dbw[d].Collections, dbw'[d].Collections)

\* the units whose required call failed are in no Collections and no result
FailedOmitted ==
    /\ \A d \in DbNames : dbw[d].err => CountOf(result, d) = 0
    /\ \A d \in DbNames, c \in CollNames :
         cw[<<d, c>>].err =>
            /\ CountOf(dbw[d].Collections, c) = 0
            /\ \A e \in EntriesOf(result, d) : CountOf(e.Collections, c) = 0

\* C13: every I/O call takes the one context of the scan.  Once database
\* listing has succeeded: every I/O call issued on the expired context
\* fails; a unit whose required call failed is omitted; what was appended
\* stays; ScanAll never turns to an error; and, short of its return,
\* some step of the scan can always be taken, so that ScanAll returns its
\* result with a nil error.
C13_CancellationPartialResult ==
    /\ [](FailedOmitted)
    /\ []((Listed /\ scanAll.pc # "done") => ENABLED NextCancel)
    /\ [][AfterExpiry]_vars
    /\ [][AppendedStays]_vars
    /\ [][Listed => scanAll'.pc # "error"]_vars

\* ScanAll has returned on an expired context: Users of App was appended
\* before the deadline and is in the result, NoName of App and the whole
\* of Logs were scanned after it and are not
C13_Witness ==
    /\ scanAll.pc = "done"
    /\ ctx = "expired"
    /\ cw[<<App, NoName>>].err
    /\ dbw[Logs].err
    /\ NamesOf(result) = {App}
    /\ \E e \in EntriesOf(result, App) : NamesOf(e.Collections) = {Users}

-----------------------------------------------------------------------------
\* this run has returned without any failure, over a source that holds
\* what the earlier run reached except the units that run dropped
CleanRunWithoutTheDropped ==
    /\ scanAll.pc = "done"
    /\ prev.pc = "kept"
    /\ prev.dropped # {}
    /\ Dropped = {}
    /\ Reached = prev.reached \ prev.dropped

\* C14: the output of a run that dropped some database or collection
\* differs from the output of a run without failure over the same source
\* less the dropped units.
C14_LossDistinguishable ==
    CleanRunWithoutTheDropped => Output # prev.output

-----------------------------------------------------------------------------
\* ScanAll has returned
Returned == scanAll.pc \in {"done", "error"}

\* C15: with options.Concurrency left at zero the scan behaves as with
\* limit 5: a database goroutine waiting for a slot can take one (the
\* model never has five in flight), and until ScanAll returns some step
\* of the scan can be taken.
C15_UnsetLimitIsFive ==
    options.Concurrency = 0 =>
       /\ \A d \in DbNames : dbw[d].pc = "spawned" => ENABLED DbAcquire(d)
       /\ Returned \/ ENABLED Next

-----------------------------------------------------------------------------
(* Package analyzer.  A string (key, path) is a sequence of one-letter     *)
(* strings; a percentage is an integer number of hundredths, so 75.00 is   *)
(* 7500.  A value is a record whose field go names its Go dynamic type:    *)
(* an object has kv, a function from keys to values; an array has items,   *)
(* a sequence of values.                                                   *)

\* a sampled batch holds at most MaxBatch documents
MaxBatch == 3
\* buildField -> getNestedFields -> buildField is followed MaxDepth deep
MaxDepth == 4
\* a lone buildField is given at most MaxOccurrences type occurrences
MaxOccurrences == 10

\* the byte of a letter
Byte ==
    ("." :> 46) @@ ("Z" :> 90) @@ ("[" :> 91) @@ ("]" :> 93) @@ ("_" :> 95)
        @@ ("a" :> 97) @@ ("b" :> 98) @@ ("c" :> 99) @@ ("d" :> 100)
        @@ ("i" :> 105) @@ ("t" :> 116)

RECURSIVE StringLess(_, _)
\* s < t of Go strings: byte by byte, a proper prefix first
StringLess(s, t) ==
    IF t = <<>> THEN FALSE
    ELSE IF s = <<>> THEN TRUE
    ELSE IF Byte[Head(s)] # Byte[Head(t)] THEN Byte[Head(s)] < Byte[Head(t)]
    ELSE StringLess(Tail(s), Tail(t))

\* a test for "." that never finds one
ContainsDotNever(s) == FALSE

\* strings.Contains(s, ".")
ContainsDot(s) == \E k \in 1..Len(s) : s[k] = "."

\* strings.HasPrefix(s, prefix)
HasPrefix(s, prefix) ==
    Len(prefix) <= Len(s) /\ SubSeq(s, 1, Len(prefix)) = prefix

\* strings.TrimPrefix(s, prefix)
TrimPrefix(s, prefix) ==
    IF HasPrefix(s, prefix) THEN SubSeq(s, Len(prefix) + 1, Len(s)) ELSE s

\* types.GetBSONTypeName, by the dynamic type of the value
GetBSONTypeName(value) ==
    CASE value.go = "nil" -> "null"
      [] value.go = "string" -> "string"
      [] value.go \in {"int", "int32"} -> "int32"
      [] value.go = "int64" -> "int64"
      [] value.go = "float64" -> "double"
      [] value.go = "bool" -> "boolean"
      [] value.go = "primitive.ObjectID" -> "objectId"
      [] value.go \in {"primitive.DateTime", "time.Time"} -> "date"
      [] value.go \in {"primitive.A", "[]interface {}"} -> "array"
      [] value.go \in {"bson.M", "bson.D", "map[string]interface {}"} -> "object"
      [] value.go = "primitive.Binary" -> "binData"
      [] value.go = "primitive.Regex" -> "regex"
      [] value.go = "primitive.Decimal128" -> "decimal"
      [] value.go = "primitive.Timestamp" -> "timestamp"
      [] OTHER -> "unknown(" \o value.go \o ")"

\* one visit of a path: by its key (extractFields) or as an element
\* (analyzeArray); a visit without type only makes the entry of the path
Visit(path, typeName, byKey) == [path |-> path, type |-> typeName, key |-> byKey]

NoType == "-"

RECURSIVE extractFields(_, _, _), analyzeArray(_, _, _)
\* extractFields(doc, prefix, stats) over the keys ks still to range
\* over: the visits it makes, those of its recursive calls included
extractFields(doc, ks, prefix) ==
    IF ks = {} THEN <<>>
    ELSE LET key      == CHOOSE k \in ks : TRUE
             value    == doc[key]
             path     == IF prefix = <<>> THEN key ELSE prefix \o <<".">> \o key
             typeName == GetBSONTypeName(value)
             inner    ==
                 IF typeName = "object"
                 THEN IF value.go \in {"bson.M", "map[string]interface {}"}
                      THEN extractFields(value.kv, DOMAIN value.kv, path)
                      ELSE <<>>
                 ELSE IF typeName = "array"
                 THEN IF value.go = "[]interface {}"
                      THEN analyzeArray(value.items, path, TRUE)
                      ELSE <<>>
                 ELSE <<>>
         IN  <<Visit(path, typeName, TRUE)>> \o inner
                 \o extractFields(doc, ks \ {key}, prefix)

\* analyzeArray(arr, path, stats): the entry of path + "[]" is made, then
\* every element is counted under it and object elements are recursed into
analyzeArray(arr, path, first) ==
    LET arrayPath == path \o <<"[", "]">>
        entry     == IF first THEN <<Visit(arrayPath, NoType, FALSE)>> ELSE <<>>
    IN  IF arr = <<>> THEN entry
        ELSE LET item     == Head(arr)
                 typeName == GetBSONTypeName(item)
                 inner    ==
                     IF typeName = "object"
                           /\ item.go \in {"bson.M", "map[string]interface {}"}
                     THEN extractFields(item.kv, DOMAIN item.kv, arrayPath)
                     ELSE <<>>
             IN  entry \o <<Visit(arrayPath, typeName, FALSE)>> \o inner
                     \o analyzeArray(Tail(arr), path, FALSE)

RECURSIVE visitsOf(_)
\* for _, doc := range docs { extractFields(doc, "", fieldStats) }
visitsOf(docs) ==
    IF docs = <<>> THEN <<>>
    ELSE extractFields(Head(docs).kv, DOMAIN Head(docs).kv, <<>>)
             \o visitsOf(Tail(docs))

\* the map fieldStats after these visits: per path the fieldStat
fieldStatsOf(visits) ==
    LET at(path) == {k \in 1..Len(visits) : visits[k].path = path}
        counted(path) == {k \in at(path) : visits[k].type # NoType}
    IN  [path \in {visits[k].path : k \in 1..Len(visits)} |->
           [occurrences |-> Cardinality(counted(path)),
            types       |->
                [t \in {visits[k].type : k \in counted(path)} |->
                    Cardinality({k \in counted(path) : visits[k].type = t})],
            isObject    |-> \E k \in at(path) :
                               visits[k].key /\ visits[k].type = "object",
            isArray     |-> \E k \in at(path) :
                               visits[k].key /\ visits[k].type = "array"]]

\* round2 without the + 0.5: the hundredths are cut, not rounded
round2Cut(num, den) == (10000 * num) \div den

\* round2(num / den * 100) in hundredths: int(f*100 + 0.5) for f >= 0
round2(num, den) == (20000 * num + den) \div (2 * den)

RECURSIVE SumOver(_, _)
\* the sum of f over the keys S
SumOver(f, S) ==
    IF S = {} THEN 0
    ELSE LET x == CHOOSE y \in S : TRUE
         IN  f[x] + SumOver(f, S \ {x})

\* buildField: the TypeFrequency values before the sort
typeFreqsOf(stat) ==
    LET totalOccurrences == SumOver(stat.types, DOMAIN stat.types)
    IN  {[Type |-> t, FrequencyPercent |-> round2(stat.types[t], totalOccurrences)] :
            t \in DOMAIN stat.types}

RECURSIVE sortTypeFreqs(_)
\* sort.Slice by FrequencyPercent, descending.  The slice is filled in
\* the iteration order of a map and the sort is not stable: every order
\* without an inversion is an outcome.
sortTypeFreqs(S) ==
    IF S = {} THEN {<<>>}
    ELSE UNION { {<<x>> \o rest : rest \in sortTypeFreqs(S \ {x})} :
                 x \in {y \in S : \A z \in S :
                                     ~(z.FrequencyPercent > y.FrequencyPercent)} }

\* inferType with the threshold test made inclusive
inferTypeAtLeast(typeFreqs) ==
    IF Len(typeFreqs) = 0 THEN "unknown"
    ELSE IF typeFreqs[1].FrequencyPercent >= 7500 THEN typeFreqs[1].Type
    ELSE "mixed"

inferType(typeFreqs) ==
    IF Len(typeFreqs) = 0 THEN "unknown"
    ELSE IF typeFreqs[1].FrequencyPercent > 7500 THEN typeFreqs[1].Type
    ELSE "mixed"

Id == <<"_", "i", "d">>

\* the less function of the sort in AnalyzeDocuments without the test
\* for "_id"
lessTopPlain(p, q) == StringLess(p, q)

\* the less function of the sort in AnalyzeDocuments
lessTop(p, q) ==
    IF p = Id THEN TRUE
    ELSE IF q = Id THEN FALSE
    ELSE StringLess(p, q)

RECURSIVE sortTop(_)
\* sort.Slice(fields, lessTop): every order without an inversion
sortTop(S) ==
    IF S = {} THEN {<<>>}
    ELSE UNION { {<<x>> \o rest : rest \in sortTop(S \ {x})} :
                 x \in {y \in S : \A z \in S \ {y} : ~lessTop(z.Path, y.Path)} }

RECURSIVE sortNested(_)
\* sort.Slice(nested, Path < Path): every order without an inversion
sortNested(S) ==
    IF S = {} THEN {<<>>}
    ELSE UNION { {<<x>> \o rest : rest \in sortNested(S \ {x})} :
                 x \in {y \in S : \A z \in S \ {y} : ~StringLess(z.Path, y.Path)} }

RECURSIVE fieldSets(_, _)
\* the sets of Fields that hold, for each of these paths, one of the
\* Fields built for it
fieldSets(paths, built) ==
    IF paths = {} THEN {{}}
    ELSE LET path == CHOOSE p \in paths : TRUE
         IN  {{field} \cup rest :
                 field \in built[path], rest \in fieldSets(paths \ {path}, built)}

RECURSIVE buildField(_, _, _, _, _), getNestedFields(_, _, _, _)
\* buildField: the Fields it may return (they differ in the order of
\* equally frequent types); depth counts the calls of getNestedFields
\* above this one
buildField(path, stat, allStats, totalDocs, depth) ==
    LET nested == IF stat.isObject
                  THEN getNestedFields(path, allStats, totalDocs, depth)
                  ELSE {<<>>}
    IN  {[Path            |-> path,
          Types           |-> typeFreqs,
          InferredType    |-> inferType(typeFreqs),
          PresencePercent |-> round2(stat.occurrences, totalDocs),
          NestedFields    |-> n] :
            typeFreqs \in sortTypeFreqs(typeFreqsOf(stat)), n \in nested}

\* getNestedFields: the direct children under parentPath + ".", each built
\* by buildField under its remaining path, then sorted
getNestedFields(parentPath, allStats, totalDocs, depth) ==
    IF depth >= MaxDepth THEN {<<>>}
    ELSE LET prefix   == parentPath \o <<".">>
             children == {path \in DOMAIN allStats :
                            /\ HasPrefix(path, prefix)
                            /\ ~ContainsDot(TrimPrefix(path, prefix))}
             built    == [path \in children |->
                             buildField(TrimPrefix(path, prefix), allStats[path],
                                        allStats, totalDocs, depth + 1)]
         IN  UNION {sortNested(nested) : nested \in fieldSets(children, built)}

RECURSIVE totalConfidence(_)
\* calculateSchemaConfidence: the sum of topTypeFreq * PresencePercent,
\* in hundredths times hundredths
totalConfidence(fields) ==
    IF fields = <<>> THEN 0
    ELSE (IF Len(Head(fields).Types) > 0
          THEN Head(fields).Types[1].FrequencyPercent * Head(fields).PresencePercent
          ELSE 0)
             + totalConfidence(Tail(fields))

\* calculateSchemaConfidence, in hundredths
calculateSchemaConfidence(fields) ==
    IF Len(fields) = 0 THEN 0
    ELSE (totalConfidence(fields) + 5000 * Len(fields)) \div (10000 * Len(fields))

\* AnalyzeDocuments: the analyses it may return, with the map fieldStats
\* it built on the way
AnalyzeDocuments(docs) ==
    IF Len(docs) = 0
    THEN {[fieldStats |-> <<>>, Fields |-> <<>>, SchemaConfidence |-> 0,
           RareFields |-> {}]}
    ELSE LET fieldStats == fieldStatsOf(visitsOf(docs))
             totalDocs  == Len(docs)
             top        == {path \in DOMAIN fieldStats : ~ContainsDot(path)}
             built      == [path \in top |->
                               buildField(path, fieldStats[path], fieldStats,
                                          totalDocs, 0)]
         IN  UNION { {[fieldStats       |-> fieldStats,
                       Fields           |-> fields,
                       SchemaConfidence |-> calculateSchemaConfidence(fields),
                       RareFields       |->
                           {field.Path : field \in
                               {f \in unsorted : f.PresencePercent < 500}}] :
                         fields \in sortTop(unsorted)} :
                     unsorted \in fieldSets(top, built) }

-----------------------------------------------------------------------------
(* AnalyzeDocuments and buildField applied alone to drawn inputs *)

Int32 == [go |-> "int32"]

String == [go |-> "string"]

ObjectID == [go |-> "primitive.ObjectID"]

\* a bson.M with these keys and values
M(kv) == [go |-> "bson.M", kv |-> kv]

\* a []interface{} with these elements
Slice(items) == [go |-> "[]interface {}", items |-> items]

KeyA == <<"a">>

KeyB == <<"b">>

KeyT == <<"t">>

KeyZ == <<"Z">>

KeyC == <<"c">>

\* a bson.D with these keys and values
D(kv) == [go |-> "bson.D", kv |-> kv]

\* a primitive.A with these elements
A(items) == [go |-> "primitive.A", items |-> items]

\* the documents drawn:
\*   {}   {a: "x"}   {a: {b: 1}}   {a: {_id: 1, Z: 1, b: "x"}}
\*   {_id: ObjectID, Z: "x", a: 1}   {t: []}   {t: [1, "x"]}
\*   {a: {b: [1, 1]}}   {a: {b: {c: 1}}}   {b: {Z: 1}}   {a: {a: {b: 1}}}
\*   {t: [{b: 1}]}   {t: [1, 1]}
\*   {a: bson.D{b: 1}}   {t: primitive.A{1, "x"}}
DocShapes ==
    { M(<<>>),
      M(KeyA :> String),
      M(KeyA :> M(KeyB :> Int32)),
      M(KeyA :> M((Id :> Int32) @@ (KeyZ :> Int32) @@ (KeyB :> String))),
      M((Id :> ObjectID) @@ (KeyZ :> String) @@ (KeyA :> Int32)),
      M(KeyT :> Slice(<<>>)),
      M(KeyT :> Slice(<<Int32, String>>)),
      M(KeyA :> M(KeyB :> Slice(<<Int32, Int32>>))),
      M(KeyA :> M(KeyB :> M(KeyC :> Int32))),
      M(KeyB :> M(KeyZ :> Int32)),
      M(KeyA :> M(KeyA :> M(KeyB :> Int32))),
      M(KeyT :> Slice(<<M(KeyB :> Int32)>>)),
      M(KeyT :> Slice(<<Int32, Int32>>)),
      M(KeyA :> D(KeyB :> Int32)),
      M(KeyT :> A(<<Int32, String>>)) }

RECURSIVE recursAgain(_, _, _)
\* getNestedFields(parentPath, ...) is entered while the calls for the
\* parent paths of chain are in progress: it is entered again for one of
\* them, or for parentPath itself, further down.  What a call does
\* depends on parentPath and the map alone, so a second entry for the same
\* parent path repeats the first without end.
recursAgain(parentPath, allStats, chain) ==
    IF parentPath \in chain THEN TRUE
    ELSE LET prefix == parentPath \o <<".">>
         IN  \E path \in DOMAIN allStats :
                /\ HasPrefix(path, prefix)
                /\ ~ContainsDot(TrimPrefix(path, prefix))
                /\ allStats[path].isObject
                /\ recursAgain(TrimPrefix(path, prefix), allStats,
                               chain \cup {parentPath})

\* building the Fields of these documents never ends: the goroutine stack
\* grows until the runtime stops the program
Overflows(docs) ==
    LET fieldStats == fieldStatsOf(visitsOf(docs))
    IN  \E path \in DOMAIN fieldStats :
           /\ ~ContainsDot(path)
           /\ fieldStats[path].isObject
           /\ recursAgain(path, fieldStats, {})

\* AnalyzeDocuments does not return: fatal error, stack overflow
AnalyzeOverflow ==
    /\ an.pc = "call"
    /\ Overflows(an.docs)
    /\ an' = [pc |-> "overflow", docs |-> an.docs]
    /\ UNCHANGED <<options, faults, ctx, orch, prev, flt, plan, fld>>

AnalyzeCall ==
    /\ an.pc = "call"
    /\ ~Overflows(an.docs)
    /\ \E analysis \in AnalyzeDocuments(an.docs) :
         an' = [pc |-> "done", docs |-> an.docs, analysis |-> analysis]
    /\ UNCHANGED <<options, faults, ctx, orch, prev, flt, plan, fld>>

InitAnalyze ==
    /\ options = [Concurrency |-> 0, DBFilter |-> <<>>, MaxDocs |-> 0]
    /\ faults = {}
    /\ ctx = "live"
    /\ OrchInit
    /\ prev = NoPrev
    /\ flt = IdleFlt
    /\ plan = IdlePlan
    /\ fld = IdleFld
    /\ an \in {[pc |-> "call", docs |-> docs] : docs \in SeqsUpTo(DocShapes, MaxBatch)}

NextAnalyze == AnalyzeCall \/ AnalyzeOverflow

SpecAnalyze == InitAnalyze /\ [][NextAnalyze]_vars

\* the type names a drawn fieldStat may count
DrawnTypes ==
    <<"int32", "string", "double", "boolean", "null", "date", "objectId">>

RECURSIVE typeCounts(_, _)
\* the maps stat.types over these names with at most budget occurrences
typeCounts(names, budget) ==
    IF names = <<>> THEN {<<>>}
    ELSE UNION { {IF c = 0 THEN rest ELSE (Head(names) :> c) @@ rest :
                     rest \in typeCounts(Tail(names), budget - c)} :
                 c \in 0..budget }

\* the fieldStat of a path of scalars with these type counts: every visit
\* adds one to occurrences and one to the count of its type
StatOf(types) ==
    [occurrences |-> SumOver(types, DOMAIN types), types |-> types,
     isObject |-> FALSE, isArray |-> FALSE]

BuildCall ==
    /\ fld.pc = "call"
    /\ \E field \in buildField(fld.path, fld.stat, (fld.path :> fld.stat),
                                fld.totalDocs, 0) :
         fld' = [fld EXCEPT !.pc = "done", !.field = field]
    /\ UNCHANGED <<options, faults, ctx, orch, prev, flt, plan, an>>

\* the statistics are those of the elements of one document's array of
\* up to two elements (totalDocs = 1), or of a key held once by every
\* document
InitField ==
    /\ options = [Concurrency |-> 0, DBFilter |-> <<>>, MaxDocs |-> 0]
    /\ faults = {}
    /\ ctx = "live"
    /\ OrchInit
    /\ prev = NoPrev
    /\ flt = IdleFlt
    /\ plan = IdlePlan
    /\ an = IdleAn
    /\ fld \in {[pc |-> "call", path |-> KeyT \o <<"[", "]">>, stat |-> StatOf(types),
                  totalDocs |-> 1, field |-> None] :
                    types \in typeCounts(DrawnTypes, 2)}
               \cup
               {[pc |-> "call", path |-> KeyA, stat |-> StatOf(types),
                 totalDocs |-> SumOver(types, DOMAIN types), field |-> None] :
                    types \in typeCounts(DrawnTypes, MaxOccurrences) \ {<<>>}}

SpecField == InitField /\ [][BuildCall]_vars

-----------------------------------------------------------------------------
RECURSIVE TreeFields(_)
\* every Field of a tree of Fields
TreeFields(fields) ==
    IF fields = <<>> THEN {}
    ELSE {Head(fields)} \cup TreeFields(Head(fields).NestedFields)
             \cup TreeFields(Tail(fields))

\* C16: in the analysis of every batch, the presence percent of every
\* Field of the tree lies in [0, 100]; no path is counted more often than
\* there are documents; and the presence percent of a top-level field is
\* its occurrences / total documents * 100.
C16_PresenceInRange ==
    an.pc = "done" =>
       /\ \A f \in TreeFields(an.analysis.Fields) :
            f.PresencePercent >= 0 /\ f.PresencePercent <= 10000
       /\ \A path \in DOMAIN an.analysis.fieldStats :
            an.analysis.fieldStats[path].occurrences <= Len(an.docs)
       /\ \A k \in 1..Len(an.analysis.Fields) :
            an.analysis.Fields[k].PresencePercent =
               round2(an.analysis.fieldStats[an.analysis.Fields[k].Path].occurrences,
                      Len(an.docs))

-----------------------------------------------------------------------------
RECURSIVE SumFrequency(_)
\* the sum of the FrequencyPercent of these type entries
SumFrequency(typeFreqs) ==
    IF typeFreqs = <<>> THEN 0
    ELSE Head(typeFreqs).FrequencyPercent + SumFrequency(Tail(typeFreqs))

\* how far the frequencies of the built Field are from 100.00
FrequencyGap ==
    IF SumFrequency(fld.field.Types) >= 10000
    THEN SumFrequency(fld.field.Types) - 10000
    ELSE 10000 - SumFrequency(fld.field.Types)

\* C17 as stated: the frequency percents of every built Field sum to 100
\* within 0.02, whatever the number of types and their counts.
C17_SumWithinTolerance == fld.pc = "done" => FrequencyGap <= 2

\* C17, amended: the frequency percents of a built Field that has type
\* entries sum to 100 within 0.005 per type entry (so within 0.02 up to
\* five types); a Field without type entries has no frequency at all.
C17_SumWithinHalfUnitPerType ==
    fld.pc = "done" =>
       IF fld.field.Types = <<>>
       THEN fld.stat.types = <<>>
       ELSE 2 * FrequencyGap <= Len(fld.field.Types)

\* seven types seen once each: 7 * 14.29 = 100.03
C17_Witness ==
    /\ fld.pc = "done"
    /\ Len(fld.field.Types) = 7
    /\ \A k \in 1..7 : fld.field.Types[k].FrequencyPercent = 1429
    /\ FrequencyGap = 3

-----------------------------------------------------------------------------
\* the types of the drawn statistics whose frequency exceeds 75.00
Dominant ==
    {t \in DOMAIN fld.stat.types :
        round2(fld.stat.types[t], fld.stat.occurrences) > 7500}

\* no type of the drawn statistics is more frequent than the first entry
TopIsFirst ==
    fld.field.Types # <<>> =>
       \A t \in DOMAIN fld.stat.types :
          fld.stat.types[t] <= fld.stat.types[fld.field.Types[1].Type]

\* C18 as stated: the inferred type of every built Field is its most
\* frequent type when the frequency of that type exceeds 75, and "mixed"
\* otherwise.
C18_InferredType ==
    fld.pc = "done" =>
       IF Dominant # {}
       THEN fld.field.InferredType \in Dominant /\ TopIsFirst
       ELSE fld.field.InferredType = "mixed"

\* C18, amended: the inferred type of a built Field that has type entries
\* is its most frequent type when the frequency of that type exceeds 75,
\* and "mixed" otherwise, 75.00 included; a Field without type entries
\* (the elements of arrays that were always empty) is "unknown".
C18_InferredTypeOrUnknown ==
    fld.pc = "done" =>
       IF fld.stat.types = <<>>
       THEN fld.field.InferredType = "unknown"
       ELSE IF Dominant # {}
       THEN fld.field.InferredType \in Dominant /\ TopIsFirst
       ELSE fld.field.InferredType = "mixed"

\* three int32 and one string in four documents: 75.00 is not above 75
C18_Witness ==
    /\ fld.pc = "done"
    /\ fld.totalDocs = 4
    /\ fld.field.Types = <<[Type |-> "int32", FrequencyPercent |-> 7500],
                            [Type |-> "string", FrequencyPercent |-> 2500]>>
    /\ fld.field.InferredType = "mixed"

-----------------------------------------------------------------------------
\* the paths of a list of Fields, in order
PathsOf(fields) == [k \in 1..Len(fields) |-> fields[k].Path]

\* strictly ascending in the order of Go strings
Ascending(paths) ==
    \A k \in 1..(Len(paths) - 1) : StringLess(paths[k], paths[k + 1])

\* C19: in the top-level list `_id`, if present, is first and the other
\* fields follow in ascending order of path; every nested list of the
\* tree is in ascending order of relative path, `_id` like any other.
C19_FieldOrdering ==
    an.pc = "done" =>
       LET top == PathsOf(an.analysis.Fields)
       IN  /\ IF Id \in Range(top)
              THEN top[1] = Id /\ Ascending(Tail(top))
              ELSE Ascending(top)
           /\ \A f \in TreeFields(an.analysis.Fields) :
                Ascending(PathsOf(f.NestedFields))

\* `_id` stands before Z at the top level and after Z in the nested list
C19_Witness ==
    /\ an.pc = "done"
    /\ PathsOf(an.analysis.Fields) = <<Id, KeyZ, KeyA>>
    /\ PathsOf(an.analysis.Fields[3].NestedFields) = <<KeyZ, Id, KeyB>>

-----------------------------------------------------------------------------
\* a batch of one or more documents {a: {b: 1}}
AllOfShapeAB ==
    /\ an.docs # <<>>
    /\ \A k \in 1..Len(an.docs) : an.docs[k] = M(KeyA :> M(KeyB :> Int32))

\* C20: for a batch of documents {a: {b: 1}} the aggregator has path a
\* with type object and path a.b with type int32, each once per document;
\* the builder returns a as the only top-level field, of type object, with
\* one nested field of relative path b; and for every batch no top-level
\* field has a path containing ".".
C20_NestedAttachment ==
    an.pc = "done" =>
       /\ \A k \in 1..Len(an.analysis.Fields) :
            ~ContainsDot(an.analysis.Fields[k].Path)
       /\ AllOfShapeAB =>
            /\ DOMAIN an.analysis.fieldStats = {KeyA, KeyA \o <<".">> \o KeyB}
            /\ an.analysis.fieldStats[KeyA].types = ("object" :> Len(an.docs))
            /\ an.analysis.fieldStats[KeyA \o <<".">> \o KeyB].types =
                   ("int32" :> Len(an.docs))
            /\ PathsOf(an.analysis.Fields) = <<KeyA>>
            /\ an.analysis.Fields[1].InferredType = "object"
            /\ PathsOf(an.analysis.Fields[1].NestedFields) = <<KeyB>>
            /\ an.analysis.Fields[1].NestedFields[1].InferredType = "int32"

\* two documents {a: {b: 1}} analysed: b is under a, present in all
C20_Witness ==
    /\ an.pc = "done"
    /\ Len(an.docs) = 2
    /\ AllOfShapeAB
    /\ an.analysis.Fields[1].NestedFields[1].Path = KeyB
    /\ an.analysis.Fields[1].NestedFields[1].PresencePercent = 10000

-----------------------------------------------------------------------------
RECURSIVE ChildrenByFullPath(_, _, _)
\* every Field of this list, which stands under the full dotted prefix
\* parent, has for children the recorded paths one segment below its own
\* full path, when it was observed as an object; so has every Field below
ChildrenByFullPath(fields, parent, stats) ==
    \A k \in 1..Len(fields) :
       LET full == parent \o fields[k].Path
           prefix == full \o <<".">>
           below == {TrimPrefix(path, prefix) :
                       path \in {q \in DOMAIN stats :
                                   /\ HasPrefix(q, prefix)
                                   /\ ~ContainsDot(TrimPrefix(q, prefix))}}
       IN  /\ (full \in DOMAIN stats /\ stats[full].isObject) =>
                 Range(PathsOf(fields[k].NestedFields)) = below
           /\ ChildrenByFullPath(fields[k].NestedFields, prefix, stats)

\* C21: in the tree of every batch, the children of every Field observed
\* as an object are exactly the fields whose full dotted path is the full
\* dotted path of that Field plus one more segment, at every level.
C21_OneLevelAtATime ==
    an.pc = "done" =>
       ChildrenByFullPath(an.analysis.Fields, <<>>, an.analysis.fieldStats)

-----------------------------------------------------------------------------
\* the counter of a type name in the map types of a fieldStat
TimesIn(types, typeName) ==
    IF typeName \in DOMAIN types THEN types[typeName] ELSE 0

\* C22: for every top-level key under which a document of the batch holds
\* an array, the path of the key counts one occurrence per document that
\* has the key and one type "array" per document that holds an array
\* there, and the derived path key[] exists and counts one occurrence of
\* its type per element of those arrays, and nothing else.
C22_ArrayElementMarker ==
    an.pc = "done" =>
       \A key \in UNION {DOMAIN an.docs[k].kv : k \in 1..Len(an.docs)} :
          LET stats == an.analysis.fieldStats
              IsArrayAt(doc) ==
                  key \in DOMAIN doc.kv /\ GetBSONTypeName(doc.kv[key]) = "array"
              holders == {k \in 1..Len(an.docs) : IsArrayAt(an.docs[k])}
              having  == {k \in 1..Len(an.docs) : key \in DOMAIN an.docs[k].kv}
              arrayPath == key \o <<"[", "]">>
              items(k) == an.docs[k].kv[key].items
              ElementTypes ==
                  UNION {{GetBSONTypeName(items(k)[i]) : i \in 1..Len(items(k))} :
                           k \in holders}
              elems(typeName) ==
                  SumOver([k \in holders |->
                             Cardinality({i \in 1..Len(items(k)) :
                                GetBSONTypeName(items(k)[i]) = typeName})],
                          holders)
          IN  holders # {} =>
                 /\ stats[key].occurrences = Cardinality(having)
                 /\ TimesIn(stats[key].types, "array") = Cardinality(holders)
                 /\ arrayPath \in DOMAIN stats
                 /\ \A typeName \in ElementTypes \cup DOMAIN stats[arrayPath].types :
                       TimesIn(stats[arrayPath].types, typeName) = elems(typeName)
                 /\ stats[arrayPath].occurrences =
                       SumOver([k \in holders |-> Len(items(k))], holders)

-----------------------------------------------------------------------------
\* C23: a top-level Field for whose path an "object" type-tag was counted
\* (the entry f[] of an array of objects among them) has for children the
\* keys recorded one segment below it, and a Field for which none was
\* counted has no children.
C23_ArraysOfObjects ==
    an.pc = "done" =>
       \A k \in 1..Len(an.analysis.Fields) :
          LET f == an.analysis.Fields[k]
              stats == an.analysis.fieldStats
              prefix == f.Path \o <<".">>
              below == {TrimPrefix(q, prefix) :
                          q \in {x \in DOMAIN stats :
                                   /\ HasPrefix(x, prefix)
                                   /\ ~ContainsDot(TrimPrefix(x, prefix))}}
          IN  IF TimesIn(stats[f.Path].types, "object") > 0
              THEN Range(PathsOf(f.NestedFields)) = below
              ELSE f.NestedFields = <<>>

-----------------------------------------------------------------------------
\* the arithmetic mean over the top-level paths of dominant-type frequency
\* percent / 100 * presence percent / 100, times 100, rounded half up to
\* hundredths; the dominant-type frequency of a path without a type is 0
MeanConfidence(docs, stats) ==
    LET top == {path \in DOMAIN stats : ~ContainsDot(path)}
        DominantFrequency(stat) ==
            LET total == SumOver(stat.types, DOMAIN stat.types)
                freqs == {round2(stat.types[t], total) : t \in DOMAIN stat.types}
            IN  IF freqs = {} THEN 0
                ELSE CHOOSE f \in freqs : \A g \in freqs : g <= f
        product == [path \in top |->
                      DominantFrequency(stats[path])
                         * round2(stats[path].occurrences, Len(docs))]
    IN  IF top = {} THEN 0
        ELSE (SumOver(product, top) + 5000 * Cardinality(top))
                \div (10000 * Cardinality(top))

\* C24: the confidence returned for a batch is the mean over the top-level
\* fields of dominant-type frequency times presence, rounded to 2
\* decimals, 0 for an empty field set, and lies between 0 and 100.
C24_SchemaConfidence ==
    an.pc = "done" =>
       /\ an.analysis.SchemaConfidence =
             MeanConfidence(an.docs, an.analysis.fieldStats)
       /\ an.analysis.Fields = <<>> => an.analysis.SchemaConfidence = 0
       /\ an.analysis.SchemaConfidence \in 0..10000

-----------------------------------------------------------------------------
(* The scan under a scheduler that runs a goroutine that can run            *)

\* limit 1 or 2, listings of collections and reads of documents free to
\* fail; while some goroutine can take a step, a step is taken
SpecLive ==
    /\ InitRun({"listCollections", "cursorAll"}, {1, 2})
    /\ [][Next]_vars
    /\ WF_vars(Next)

\* C25: with a limit of 1 or 2, whatever listings and reads fail, ScanAll
\* returns, and when it has returned every slot is free and every
\* goroutine started has ended; the slots taken are always those of the
\* goroutines between acquire and release (on the failure path too); a
\* collection goroutine waits only for the semaphore of its own database;
\* a goroutine that waits for a slot stops waiting only by taking one, so
\* every goroutine that waits gets a slot.
C25_ScanLiveness ==
    /\ <>Returned
    /\ [](Returned =>
            /\ sem = 0
            /\ \A d \in DbNames :
                  dbw[d].semaphore = 0 /\ dbw[d].pc \in {"idle", "done"}
            /\ \A u \in Units : cw[u].pc \in {"idle", "done"})
    /\ [](/\ sem = Cardinality({d \in DbNames :
                     dbw[d].pc \notin {"idle", "spawned", "done"}})
          /\ \A d \in DbNames :
                dbw[d].semaphore =
                   Cardinality({c \in CollNames :
                      cw[<<d, c>>].pc \notin {"idle", "spawned", "done"}}))
    /\ [](\A u \in Units :
             (cw[u].pc = "spawned" /\ dbw[u[1]].semaphore < options.Concurrency)
                => ENABLED CollAcquire(u[1], u[2]))
    /\ [][/\ \A d \in DbNames :
                dbw[d].pc = "spawned" => dbw'[d].pc \in {"spawned", "scan"}
          /\ \A u \in Units :
                cw[u].pc = "spawned" => cw'[u].pc \in {"spawned", "scan"}]_vars

\* limit 1, two databases selected, one of them failed and one returned
\* with a collection that failed: ScanAll has returned and no slot is held
C25_Witness ==
    /\ scanAll.pc = "done"
    /\ options.Concurrency = 1
    /\ dbw[App].pc = "done" /\ dbw[Logs].pc = "done"
    /\ \E d \in {App, Logs} : dbw[d].err
    /\ \E u \in Units : cw[u].pc = "done" /\ cw[u].err
    /\ sem = 0
    /\ \A d \in DbNames : dbw[d].semaphore = 0

-----------------------------------------------------------------------------
\* C26: for every batch the recursion of buildField and getNestedFields
\* ends: no call of AnalyzeDocuments ends in a stack that grew without
\* bound instead of a return.
C26_BuilderTerminates == an.pc # "overflow"

-----------------------------------------------------------------------------
(* AnalyzeDocuments called twice on the same batch                          *)

\* the second call, after the first has returned
AnalyzeAgain ==
    /\ an.pc = "done"
    /\ \E analysis \in AnalyzeDocuments(an.docs) :
         an' = [pc |-> "again", docs |-> an.docs, analysis |-> an.analysis,
                second |-> analysis]
    /\ UNCHANGED <<options, faults, ctx, orch, prev, flt, plan, fld>>

SpecTwice == InitAnalyze /\ [][NextAnalyze \/ AnalyzeAgain]_vars

\* C27: two calls of AnalyzeDocuments on the same batch return the same
\* Field tree, the order of the type entries of every Field included.
C27_Deterministic ==
    an.pc = "again" => an.second.Fields = an.analysis.Fields

-----------------------------------------------------------------------------
\* C28: for every top-level value of a batch that the classifier tags
\* "object", whatever its Go type, the keys inside it are recorded under
\* path.key; for every one it tags "array", whatever its Go type, the
\* path path[] is recorded and counts at least the elements of that array.
C28_TraversalFollowsClassifier ==
    an.pc = "done" =>
       \A k \in 1..Len(an.docs) : \A key \in DOMAIN an.docs[k].kv :
          LET value == an.docs[k].kv[key]
              stats == an.analysis.fieldStats
              arrayPath == key \o <<"[", "]">>
          IN  /\ GetBSONTypeName(value) = "object" =>
                    \A inner \in DOMAIN value.kv :
                       (key \o <<".">> \o inner) \in DOMAIN stats
              /\ GetBSONTypeName(value) = "array" =>
                    /\ arrayPath \in DOMAIN stats
                    /\ stats[arrayPath].occurrences >= Len(value.items)

-----------------------------------------------------------------------------
(* Runs in which the count of a collection may fail                         *)

SpecCount == InitRun({"count", "cursorAll"}, {1}) /\ [][Next]_vars

\* C29: a collection whose count failed is scanned on with count 0: the
\* sample size is 0 and every request of documents asks for 0; it fails
\* exactly when the sampling fails, and when the sampling succeeds its
\* Collection value has document count 0 and is appended to Collections.
C29_CountFailureAbsorbed ==
    \A d \in DbNames, c \in CollNames :
       LET unit == cw[<<d, c>>]
           SamplingOk ==
               /\ unit.sampling # <<>>
               /\ unit.sampling[Len(unit.sampling)] = CursorAll(TRUE)
           RequestedZero ==
               /\ unit.sampling # <<>>
               /\ unit.sampling[1].call = "aggregate"
               /\ \A k \in 1..Len(unit.sampling) :
                     unit.sampling[k].call \in {"aggregate", "find"}
                        => unit.sampling[k].size = 0
       IN  "count" \in unit.warned =>
              /\ unit.sampleSize = 0
              /\ RequestedZero
              /\ unit.err <=> ~SamplingOk
              /\ SamplingOk =>
                    /\ CollReturnedOk(d, c)
                    /\ unit.collection.DocumentCount = 0
                    /\ DbReturnedOk(d) =>
                          /\ CountOf(dbw[d].Collections, c) = 1
                          /\ \A e \in EntriesOf(dbw[d].Collections, c) :
                                e.DocumentCount = 0

\* ScanAll has returned App with Users, whose count failed, at count 0,
\* and Logs with a collection that was counted
C29_Witness ==
    /\ scanAll.pc = "done"
    /\ "count" \in cw[<<App, Users>>].warned
    /\ \E e \in EntriesOf(result, App) :
          \E x \in EntriesOf(e.Collections, Users) : x.DocumentCount = 0
    /\ \E e \in EntriesOf(result, Logs) :
          \E x \in EntriesOf(e.Collections, Events) : x.DocumentCount > 0

-----------------------------------------------------------------------------
\* the documents of the collections drawn all have the shape
\* {_id: ObjectID}: bson.Marshal gives 22 bytes for each
DocBytes == 22

\* ScanCollection: avgDocSize, 0 unless len(docs) > 0
avgDocSize(docs) == IF docs > 0 THEN (docs * DocBytes) \div docs ELSE 0

\* ScanCollection: analysis.Fields for this many sampled documents; the
\* Fields of any number of documents of one shape are those of one
FieldsOfSample(docs) ==
    LET sample == IF docs > 0 THEN <<M(Id :> ObjectID)>> ELSE <<>>
    IN  (CHOOSE analysis \in AnalyzeDocuments(sample) : TRUE).Fields

\* the types.Collection value of a Collection of the model
collSchema(collection) ==
    [Name |-> collection.Name,
     DocumentCount |-> collection.DocumentCount,
     AverageDocSizeBytes |-> avgDocSize(collection.Docs),
     Indexes |-> collection.Indexes,
     Fields |-> FieldsOfSample(collection.Docs)]

\* C30: when ScanAll has returned, the result holds one entry for every
\* selected database (kept by the allow-list, not a system database) whose
\* collections could be listed and none for any other; the entry holds the
\* collections that were scanned without error, none if all failed or
\* were skipped; a collection of which no document was sampled is among
\* them, with no Field and average size 0.
C30_ResultMembership ==
    LET Selected(d) == d \in Range(scanAll.databases) /\ ~SystemDb(d)
        ScannedOk(d) == {c \in Range(dbw[d].collections) :
                           ~SkipCollection(c) /\ ~cw[<<d, c>>].err}
    IN  scanAll.pc = "done" =>
           /\ \A d \in DbNames :
                 CountOf(result, d) = IF Selected(d) /\ ~dbw[d].err THEN 1 ELSE 0
           /\ \A e \in Range(result) :
                 /\ NamesOf(e.Collections) = ScannedOk(e.Name)
                 /\ \A x \in Range(e.Collections) :
                       x.Docs = 0 =>
                          /\ collSchema(x).Fields = <<>>
                          /\ collSchema(x).AverageDocSizeBytes = 0

\* App returned with its one empty collection while Users failed, and
\* Logs returned with no collection at all although Events was listed
C30_Witness ==
    /\ scanAll.pc = "done"
    /\ cw[<<App, Users>>].err
    /\ \E e \in EntriesOf(result, App) :
          /\ Len(e.Collections) = 1
          /\ e.Collections[1].Name = NoName
          /\ e.Collections[1].Docs = 0
          /\ collSchema(e.Collections[1]).Fields = <<>>
    /\ cw[<<Logs, Events>>].err
    /\ \E e \in EntriesOf(result, Logs) : e.Collections = <<>>

=============================================================================
